---------------------------- MODULE Spec2Model ----------------------------
(***************************************************************************)
(* The parallel block pipeline of moamosaic (src/moamosaic/mosaic.py):     *)
(* doMosaic's per-band loop, the reader workers (readFunc), the shared     *)
(* block queue, and the writer (writeFunc) with its block cache.           *)
(*                                                                         *)
(* Geometry is abstracted: the result of the intersection test of          *)
(* findInputsPerBlock is an input relation (covers), chosen in Init, and   *)
(* the array a reader produces for (file, tile) is the tile-shaped padded  *)
(* array PaddedRead.  File names in the input list are distinct, except   *)
(* in DupSpec, whose lists repeat a name.                                  *)
(*                                                                         *)
(* Beside the pipeline (Spec, SkewSpec, LiveSpec): doMosaic's prologue up  *)
(* to the first band (SetupSpec), the planner functions called alone on    *)
(* bounded arguments (PlannerSpec), readFunc's clipping and padding of one *)
(* block of a co-gridded input (ReadSpec), and the pipeline with the       *)
(* writer's poll taken in two steps (PollSpec).                            *)
(***************************************************************************)
EXTENDS Integers, Sequences, FiniteSets, TLC

\* ------------------------------------------------------------------ bounds
NumTileCols == 3
SkewTileCols == 5
BlockSize == 2
OutRows == 1
NumFiles == 2
MaxThreads == 2
NumBands == 2
\* the planner functions called alone: grids up to MaxDim x MaxDim, block
\* sizes up to MaxBlockSize, reading lists up to MaxListLen, up to MaxParts readers
MaxDim == 5
MaxBlockSize == 3
MaxListLen == 6
MaxParts == 4
\* readFunc's block computation alone: input files laid anywhere on an
\* output grid of ReadRows x ReadCols pixels
ReadRows == 3
ReadCols == 4

\* ----------------------------------------------------------- small helpers
\* (variant: no clipping, the first argument is taken)
NoClip(a, b) == a

Min(a, b) == IF a < b THEN a ELSE b

RECURSIVE Pow2(_)
Pow2(n) == IF n = 0 THEN 1 ELSE 2 * Pow2(n - 1)

SeqToSet(s) == {s[k] : k \in 1..Len(s)}

\* ----------------------------------------------------------------- drivers
DFLT_DRIVER == "GTiff"
\* the keys of defaultCreationOptions
defaultCreationOptions == {"GTiff", "KEA", "HFA"}
\* the drivers gdal.GetDriverByName finds in this build of GDAL
GdalDrivers == {"GTiff", "KEA", "HFA", "ENVI"}
\* the driver names a caller may pass
DriverNames == {"GTiff", "ENVI", "NoSuchDriver"}

\* ---------------------------------------------------------------- planner
\* outImgInfo.nullVal
NullVal == -1

\* outImgInfo.nrows / ncols of an output grid that is tcols tiles wide: the
\* last tile column is clipped to one pixel
OutNrows == OutRows
OutNcols(tcols) == (tcols - 1) * BlockSize + 1

\* structures.BlockSpec(top, left, xsize, ysize)
BlockSpec(top, left, xsize, ysize) == [top |-> top, left |-> left, xsize |-> xsize, ysize |-> ysize]

RECURSIVE BlockRow(_, _, _, _, _)
BlockRow(top, ysize, left, ncols, blocksize) ==
    IF left < ncols
    THEN LET xsize == Min(blocksize, ncols - left)
         IN  <<BlockSpec(top, left, xsize, ysize)>>
                 \o BlockRow(top, ysize, left + xsize, ncols, blocksize)
    ELSE <<>>

RECURSIVE BlockRows(_, _, _, _)
BlockRows(top, nrows, ncols, blocksize) ==
    IF top < nrows
    THEN LET ysize == Min(blocksize, nrows - top)
         IN  BlockRow(top, ysize, 0, ncols, blocksize)
                 \o BlockRows(top + ysize, nrows, ncols, blocksize)
    ELSE <<>>

makeOutputBlockList(nrows, ncols, blocksize) == BlockRows(0, nrows, ncols, blocksize)

\* the input file list (distinct names, in merge order)
filelist == [k \in 1..NumFiles |-> k]
Files == SeqToSet(filelist)

\* The inputs the model draws: for each file the tiles (indices of blockList)
\* its extent intersects, a non-empty run of consecutive tiles.
TileRuns(ntiles) == {lo..hi : lo \in 1..ntiles, hi \in 1..ntiles} \ {{}}
CoverChoices(ntiles) == [Files -> TileRuns(ntiles)]
\* ... and for the skewed workload: every file covers the whole grid, or all
\* of it but the last tile
SkewCoverChoices(ntiles) == [Files -> {1..ntiles, 1..(ntiles - 1)}]

\* findInputsPerBlock: filesForBlock, keyed by the tiles that have inputs
findInputsPerBlock(blocks, files, covers) ==
    LET idxWithInputs == {k \in 1..Len(blocks) : \E f \in SeqToSet(files) : k \in covers[f]}
    IN  [b \in {blocks[k] : k \in idxWithInputs} |->
            LET k == CHOOSE j \in idxWithInputs : blocks[j] = b
            IN  SelectSeq(files, LAMBDA f : k \in covers[f])]

\* (variant: the tiles are taken last to first)
RECURSIVE makeBlockReadingListReversed(_, _)
makeBlockReadingListReversed(blocks, ffb) ==
    IF blocks = <<>> THEN <<>>
    ELSE LET b == Head(blocks)
         IN  makeBlockReadingListReversed(Tail(blocks), ffb)
                 \o (IF b \in DOMAIN ffb
                     THEN [n \in 1..Len(ffb[b]) |-> [outblock |-> b, filename |-> ffb[b][n]]]
                     ELSE <<>>)

\* makeBlockReadingList: one BlockReadingSpec per (tile, file), tile-major
RECURSIVE makeBlockReadingList(_, _)
makeBlockReadingList(blocks, ffb) ==
    IF blocks = <<>> THEN <<>>
    ELSE LET b == Head(blocks)
         IN  (IF b \in DOMAIN ffb
              THEN [n \in 1..Len(ffb[b]) |-> [outblock |-> b, filename |-> ffb[b][n]]]
              ELSE <<>>)
                 \o makeBlockReadingList(Tail(blocks), ffb)

\* (variant: consecutive chunks of the list instead of strides)
divideBlocksInChunks(brl, n) ==
    [t \in 1..n |->
        LET size == (Len(brl) + n - 1) \div n
            lo == Min((t - 1) * size, Len(brl))
            hi == Min(t * size, Len(brl))
        IN  [j \in 1..(hi - lo) |-> brl[lo + j]]]

\* blockReadingList[i::numthreads] for i in range(numthreads)
divideBlocksByThread(brl, n) ==
    [t \in 1..n |->
        LET cnt == IF Len(brl) >= t THEN (Len(brl) - t) \div n + 1 ELSE 0
        IN  [j \in 1..cnt |-> brl[(t - 1) + (j - 1) * n + 1]]]


\* ------------------------------------------------------------ pixel arrays
\* A numpy array: its shape (ysize, xsize) and its pixels in row-major order.
Array(ysize, xsize, pixels) == [shape |-> <<ysize, xsize>>, data |-> pixels]

\* The pixel of input file f, band bandNum, at output-grid position (r, c):
\* every null / non-null combination of the files occurs along a row.
SrcPixel(f, band, r, c) ==
    IF ((c + r) \div Pow2(f - 1)) % 2 = 1 THEN (band - 1) * NumFiles + f ELSE NullVal

\* readFunc's outArr: band.ReadAsArray of the clipped window, slotted into
\* a full (ysize, xsize) array padded with outNullVal.
PaddedRead(f, band, b) ==
    Array(b.ysize, b.xsize,
          [p \in 1..(b.xsize * b.ysize) |->
              SrcPixel(f, band, b.top + ((p - 1) \div b.xsize), b.left + ((p - 1) % b.xsize))])

\* The extent of a co-gridded input file: the place of its first pixel on the
\* output grid (xoff, yoff) and its size in pixels (ncols, nrows).
Extents(gridrows, gridcols) ==
    UNION {{[xoff |-> x, yoff |-> y, ncols |-> w, nrows |-> h] :
                w \in 1..(gridcols - x), h \in 1..(gridrows - y)} :
           x \in 0..(gridcols - 1), y \in 0..(gridrows - 1)}

\* BlockSpec.transformToFilePixelCoords for a co-gridded input: the tile's
\* rectangle in the pixel coordinates of the file
transformToFilePixelCoords(block, ext) ==
    [fileLeft |-> block.left - ext.xoff,
     fileTop |-> block.top - ext.yoff,
     fileRight |-> block.left + block.xsize - ext.xoff,
     fileBottom |-> block.top + block.ysize - ext.yoff]

\* findInputsPerBlock's test, and the inblock it records
intersects(block, ext) ==
    LET c == transformToFilePixelCoords(block, ext)
    IN  /\ (c.fileRight + 1) >= 0 /\ (c.fileBottom + 1) >= 0
        /\ c.fileLeft <= ext.ncols /\ c.fileTop <= ext.nrows

inblockOf(block, ext) ==
    LET c == transformToFilePixelCoords(block, ext)
    IN  BlockSpec(c.fileTop, c.fileLeft, c.fileRight - c.fileLeft, c.fileBottom - c.fileTop)

\* the clipped window of readFunc
ClippedWindow(inblock, ext) ==
    LET left1 == IF inblock.left > 0 THEN inblock.left ELSE 0
        top1 == IF inblock.top > 0 THEN inblock.top ELSE 0
        right1 == Min(inblock.left + inblock.xsize, ext.ncols)
        bottom1 == Min(inblock.top + inblock.ysize, ext.nrows)
    IN  [left1 |-> left1, top1 |-> top1, xsize1 |-> right1 - left1, ysize1 |-> bottom1 - top1,
         coloffset |-> IF 0 > -inblock.left THEN 0 ELSE -inblock.left,
         rowoffset |-> IF 0 > -inblock.top THEN 0 ELSE -inblock.top]

\* (variant: the clipped array itself is enqueued, without padding)
readBlockUnpadded(f, band, inblock, ext, outNullVal) ==
    LET w == ClippedWindow(inblock, ext)
    IN  IF w.xsize1 <= 0 \/ w.ysize1 <= 0 THEN [result |-> "fault", arr |-> <<>>]
        ELSE [result |-> "ok",
              arr |-> Array(w.ysize1, w.xsize1,
                            [p \in 1..(w.xsize1 * w.ysize1) |->
                                SrcPixel(f, band, w.top1 + ((p - 1) \div w.xsize1) + ext.yoff,
                                         w.left1 + ((p - 1) % w.xsize1) + ext.xoff)])]

\* readFunc's loop body from inblock to outArr: band.ReadAsArray of the
\* clipped window (a fault when the window is empty), then the array is
\* slotted into a full (ysize, xsize) array of outNullVal (a fault when the
\* slot and the array differ in shape).
readBlock(f, band, inblock, ext, outNullVal) ==
    LET w == ClippedWindow(inblock, ext)
        xsize == inblock.xsize
        ysize == inblock.ysize
        InSlot(r, c) == /\ w.rowoffset <= r /\ r < w.rowoffset + w.ysize1
                        /\ w.coloffset <= c /\ c < w.coloffset + w.xsize1
    IN  IF w.xsize1 <= 0 \/ w.ysize1 <= 0 THEN [result |-> "fault", arr |-> <<>>]
        ELSE IF w.rowoffset + w.ysize1 > ysize \/ w.coloffset + w.xsize1 > xsize
        THEN [result |-> "fault", arr |-> <<>>]
        ELSE [result |-> "ok",
              arr |-> Array(ysize, xsize,
                            [p \in 1..(xsize * ysize) |->
                                LET r == (p - 1) \div xsize
                                    c == (p - 1) % xsize
                                IN  IF InSlot(r, c)
                                    THEN SrcPixel(f, band,
                                                  w.top1 + (r - w.rowoffset) + ext.yoff,
                                                  w.left1 + (c - w.coloffset) + ext.xoff)
                                    ELSE outNullVal])]

\* (variant: the fill is forgotten, the array stays zeros)
NullArrayUnfilled(b, nullval) ==
    Array(b.ysize, b.xsize, [p \in 1..(b.xsize * b.ysize) |-> 0])

\* numpy.zeros((outblock.ysize, outblock.xsize)); outArr.fill(nullVal)
NullArray(b, nullval) ==
    Array(b.ysize, b.xsize, [p \in 1..(b.xsize * b.ysize) |-> nullval])

\* (variant: the mask is dropped, the later array overwrites every pixel)
OverlayUnmasked(outArr, arr, nullval) == [shape |-> outArr.shape, data |-> arr.data]

\* outArr[nonNull] = arr[nonNull], with nonNull = (arr != outNullVal)
Overlay(outArr, arr, nullval) ==
    [shape |-> outArr.shape,
     data |-> [p \in DOMAIN outArr.data |->
                 IF arr.data[p] # nullval THEN arr.data[p] ELSE outArr.data[p]]]

RECURSIVE MergeFrom(_, _, _, _)
MergeFrom(outArr, all, n, nullval) ==
    IF n > Len(all) THEN outArr
    ELSE MergeFrom(Overlay(outArr, all[n], nullval), all, n + 1, nullval)

mergeInputs(allInputsForBlock, outNullVal) ==
    MergeFrom(allInputsForBlock[1], allInputsForBlock, 2, outNullVal)

\* ------------------------------------------------------------- block cache
\* structures.BlockCache: a dictionary keyed by (filename, outblock)
makeKey(filename, outblock) == <<filename, outblock>>

BlockCacheAdd(cache, filename, outblock, arr) ==
    [k \in DOMAIN cache \cup {makeKey(filename, outblock)} |->
        IF k = makeKey(filename, outblock) THEN arr ELSE cache[k]]

BlockCacheRemove(cache, filename, outblock) ==
    [k \in DOMAIN cache \ {makeKey(filename, outblock)} |-> cache[k]]

\* (variant: only the first input of the tile is removed)
RemoveFirstOnly(cache, fl, outblock) == BlockCacheRemove(cache, Head(fl), outblock)

\* for filename in filesForBlock[outblock]: blockCache.remove(filename, outblock)
RECURSIVE RemoveAll(_, _, _)
RemoveAll(cache, fl, outblock) ==
    IF fl = <<>> THEN cache
    ELSE RemoveAll(BlockCacheRemove(cache, Head(fl), outblock), Tail(fl), outblock)

\* (variant: a missing input is skipped instead of ending the search)
getInputsSkipMissing(cache, outblock, ffb) ==
    LET fl == ffb[outblock]
        present == SelectSeq(fl, LAMBDA f : makeKey(f, outblock) \in DOMAIN cache)
    IN  IF present = <<>> THEN [result |-> "None", arrays |-> <<>>]
        ELSE [result |-> "list",
              arrays |-> [n \in 1..Len(present) |-> cache[makeKey(present[n], outblock)]]]

\* getInputsForBlock: the cached arrays in filesForBlock order ("list"),
\* None when one is missing ("None"), or the ValueError raised on a shape
\* mismatch met before the first missing one ("ValueError").
getInputsForBlock(cache, outblock, ffb) ==
    LET fl == ffb[outblock]
        numFiles == Len(fl)
        has(n) == makeKey(fl[n], outblock) \in DOMAIN cache
        firstMissing == IF \A n \in 1..numFiles : has(n) THEN numFiles + 1
                        ELSE CHOOSE n \in 1..numFiles :
                                 ~has(n) /\ \A m \in 1..(n - 1) : has(m)
        got == [n \in 1..(firstMissing - 1) |-> cache[makeKey(fl[n], outblock)]]
    IN  IF \E n \in DOMAIN got : got[n].shape # got[1].shape
        THEN [result |-> "ValueError", arrays |-> <<>>]
        ELSE IF firstMissing <= numFiles
        THEN [result |-> "None", arrays |-> <<>>]
        ELSE [result |-> "list", arrays |-> got]

\* ------------------------------------------------------------------- state
VARIABLES
    call,             \* the call under way: the function and its arguments
    ret,              \* <<>> until a planner function called alone has returned <<value>>
    driver,           \* doMosaic argument: the name of the output driver
    creationoptions,  \* doMosaic argument: "None" or "given"
    imgInfoDict,      \* the input files whose ImageInfo has been built
    outfile,          \* the output file: "absent", "stale" or "created"
    blockList,        \* planner output: the output tiles, row-major
    filesForBlock,    \* planner output: tile -> ordered list of filenames
    blocksPerThread,  \* planner output: one reading list per reader
    bandNum,          \* the band doMosaic is processing
    mpc,              \* doMosaic: "imginfo", "analysis", "openout", "opened", then
                      \* "writing", "joining", "unwinding", "returned", "raised"
    blockQ,           \* the shared queue.Queue() of (blockInfo, outArr)
    rpc,              \* per reader: "read", "done", "finished", "failed"
    ridx,             \* per reader: position in blocksToRead (1-based)
    handles,          \* per reader: GdalObjCache, the files held open
    opened,           \* per reader and file: number of opens in this band
    remaining,        \* per reader: BlocksByInfile, blocks still to do per file
    wpc,              \* writeFunc: "poll", "examine", "check", "returned", "raised"
    i,                \* writeFunc: index of the next output tile (0-based)
    blockCache,       \* writeFunc: (filename, outblock) -> array
    blockInfo,        \* writeFunc: <<item>> drained in this iteration, <<>> for None
    outDs,            \* per band: the (outblock, array) writes, in order
    everFaulted,      \* history: some reader has terminated with a fault
    postFaultWrites   \* history: tiles written in this band after a reader fault

argvars == <<call, ret, driver, creationoptions>>
cfgvars == <<call, ret, driver, creationoptions, imgInfoDict, outfile, blockList, filesForBlock,
             blocksPerThread>>
rvars == <<rpc, ridx, handles, opened, remaining>>
wvars == <<wpc, i, blockCache, blockInfo>>
vars == <<call, ret, driver, creationoptions, imgInfoDict, outfile, blockList, filesForBlock, blocksPerThread, bandNum, mpc, blockQ, rpc, ridx, handles,
          opened, remaining, wpc, i, blockCache, blockInfo, outDs, everFaulted,
          postFaultWrites>>

numthreads == Len(blocksPerThread)
numOutBlocks == Len(blockList)
Readers == 1..numthreads
EmptyCache == [k \in {} |-> NullVal]

\* readFunc's prologue: blocksPerInfile.blockToDo for every block of the list
BlocksByInfile(blocksToRead) ==
    [f \in Files |-> Cardinality({n \in 1..Len(blocksToRead) : blocksToRead[n].filename = f})]

\* threadPool.submit(readFunc, blocksPerThread[i], ...) for every reader
StartRpc(bpt) == [k \in 1..Len(bpt) |-> IF bpt[k] = <<>> THEN "finished" ELSE "read"]
StartRidx(bpt) == [k \in 1..Len(bpt) |-> 1]
StartHandles(bpt) == [k \in 1..Len(bpt) |-> {}]
StartOpened(bpt) == [k \in 1..Len(bpt) |-> [f \in Files |-> 0]]
StartRemaining(bpt) == [k \in 1..Len(bpt) |-> BlocksByInfile(bpt[k])]

\* doMosaic up to the start of the first band, for an output grid tcols
\* tiles wide, the intersections and the thread count drawn from the sets
Planned(tcols, covers, n) ==
    LET blocks == makeOutputBlockList(OutNrows, OutNcols(tcols), BlockSize)
        ffb == findInputsPerBlock(blocks, filelist, covers)
    IN  [blockList |-> blocks,
         filesForBlock |-> ffb,
         blocksPerThread |-> divideBlocksByThread(makeBlockReadingList(blocks, ffb), n)]

Plan(tcols, coverSet, threadSet) ==
    \E covers \in coverSet, n \in threadSet :
        LET p == Planned(tcols, covers, n)
        IN  /\ blockList = p.blockList
            /\ filesForBlock = p.filesForBlock
            /\ blocksPerThread = p.blocksPerThread

FirstBand ==
    /\ bandNum = 1
    /\ mpc = "writing"
    /\ blockQ = <<>>
    /\ rpc = StartRpc(blocksPerThread)
    /\ ridx = StartRidx(blocksPerThread)
    /\ handles = StartHandles(blocksPerThread)
    /\ opened = StartOpened(blocksPerThread)
    /\ remaining = StartRemaining(blocksPerThread)
    /\ wpc = "poll"
    /\ i = 0
    /\ blockCache = EmptyCache
    /\ blockInfo = <<>>
    /\ outDs = [b \in 1..NumBands |-> <<>>]
    /\ everFaulted = FALSE
    /\ postFaultWrites = 0

\* doMosaic's prologue has succeeded: every ImageInfo built, the output
\* file created by a known driver
PrologueDone ==
    /\ call = [fn |-> "doMosaic"] /\ ret = <<>>
    /\ driver = DFLT_DRIVER
    /\ creationoptions = "None"
    /\ imgInfoDict = Files
    /\ outfile = "created"

Init ==
    /\ PrologueDone
    /\ Plan(NumTileCols, CoverChoices(NumTileCols), 1..MaxThreads)
    /\ FirstBand

\* The skewed workload: a wider grid, every file over (nearly) all of it
SkewInit ==
    /\ PrologueDone
    /\ Plan(SkewTileCols, SkewCoverChoices(SkewTileCols), {MaxThreads})
    /\ FirstBand

\* ------------------------------------------------------ doMosaic's prologue
\* The pipeline's variables before the first band is started
NotStarted ==
    /\ bandNum = 0
    /\ blockQ = <<>>
    /\ rpc = <<>> /\ ridx = <<>> /\ handles = <<>> /\ opened = <<>> /\ remaining = <<>>
    /\ wpc = "poll" /\ i = 0 /\ blockCache = EmptyCache /\ blockInfo = <<>>
    /\ outDs = [b \in 1..NumBands |-> <<>>]
    /\ everFaulted = FALSE
    /\ postFaultWrites = 0

\* the call of doMosaic: any driver name, creation options given or not, an
\* output file that exists already or not; nothing opened, nothing planned
SetupInit ==
    /\ call = [fn |-> "doMosaic"] /\ ret = <<>>
    /\ driver \in DriverNames
    /\ creationoptions \in {"None", "given"}
    /\ outfile \in {"absent", "stale"}
    /\ imgInfoDict = {}
    /\ blockList = <<>> /\ filesForBlock = <<>> /\ blocksPerThread = <<>>
    /\ mpc = "imginfo"
    /\ NotStarted

pvars == <<bandNum, blockQ, rvars, wvars, outDs, everFaulted, postFaultWrites>>

\* structures.ImageInfo(filename): the files opened to build it
ImageInfo(filename) == {filename}

\* makeImgInfoDict: the ImageInfo of the next input file of the list
MakeImgInfo ==
    /\ mpc = "imginfo"
    /\ LET n == Cardinality(imgInfoDict)
       IN  /\ imgInfoDict' = imgInfoDict \cup ImageInfo(filelist[n + 1])
           /\ mpc' = IF n + 1 = Len(filelist) THEN "analysis" ELSE "imginfo"
    /\ UNCHANGED <<argvars, outfile, blockList, filesForBlock, blocksPerThread, pvars>>

\* ... or fails on a file that cannot be opened
ImgInfoFault ==
    /\ mpc = "imginfo"
    /\ mpc' = "raised"
    /\ UNCHANGED <<cfgvars, pvars>>

\* makeOutputGrid .. divideBlocksByThread
Analysis ==
    /\ mpc = "analysis"
    /\ \E covers \in CoverChoices(NumTileCols), n \in 1..MaxThreads :
           LET p == Planned(NumTileCols, covers, n)
           IN  /\ blockList' = p.blockList
               /\ filesForBlock' = p.filesForBlock
               /\ blocksPerThread' = p.blocksPerThread
    /\ mpc' = "openout"
    /\ UNCHANGED <<argvars, imgInfoDict, outfile, pvars>>

\* openOutfile: the default creation options of the driver, GetDriverByName,
\* then Delete of an existing file and Create
openOutfileResult ==
    IF creationoptions = "None" /\ driver \notin defaultCreationOptions THEN "KeyError"
    ELSE IF driver \notin GdalDrivers THEN "ValueError"
    ELSE "ds"

OpenOutfile ==
    /\ mpc = "openout"
    /\ IF openOutfileResult = "ds"
       THEN outfile' = "created" /\ mpc' = "opened"
       ELSE outfile' = outfile /\ mpc' = "raised"
    /\ UNCHANGED <<argvars, imgInfoDict, blockList, filesForBlock, blocksPerThread, pvars>>

\* the first pass of the band loop: the readers are submitted
StartFirstBand ==
    /\ mpc = "opened"
    /\ bandNum' = 1
    /\ mpc' = "writing"
    /\ rpc' = StartRpc(blocksPerThread)
    /\ ridx' = StartRidx(blocksPerThread)
    /\ handles' = StartHandles(blocksPerThread)
    /\ opened' = StartOpened(blocksPerThread)
    /\ remaining' = StartRemaining(blocksPerThread)
    /\ UNCHANGED <<cfgvars, blockQ, wvars, outDs, everFaulted, postFaultWrites>>

SetupNext == MakeImgInfo \/ ImgInfoFault \/ Analysis \/ OpenOutfile \/ StartFirstBand

SetupSpec == SetupInit /\ [][SetupNext]_vars

\* ------------------------------------------- the planner functions, alone
\* The calls: makeOutputBlockList on any grid and block size; the reading
\* list of a tiling under any intersection relation; divideBlocksByThread
\* on any list of distinct items and any thread count.
PlannerCalls ==
    {[fn |-> "makeOutputBlockList", nrows |-> r, ncols |-> c, blocksize |-> b] :
         r \in 0..MaxDim, c \in 0..MaxDim, b \in 1..MaxBlockSize}
    \cup UNION {{[fn |-> "makeBlockReadingList", tcols |-> t, covers |-> cv] :
                    cv \in CoverChoices(t)} : t \in 1..NumTileCols}
    \cup {[fn |-> "divideBlocksByThread", blockReadingList |-> [k \in 1..len |-> k],
           numthreads |-> n] : len \in 0..MaxListLen, n \in 1..MaxParts}

PlannerInit ==
    /\ call \in PlannerCalls /\ ret = <<>>
    /\ driver = DFLT_DRIVER /\ creationoptions = "None"
    /\ imgInfoDict = {} /\ outfile = "absent"
    /\ blockList = <<>> /\ filesForBlock = <<>> /\ blocksPerThread = <<>>
    /\ mpc = "planning"
    /\ NotStarted

restvars == <<call, driver, creationoptions, imgInfoDict, outfile, blockList, filesForBlock,
              blocksPerThread, mpc, pvars>>

CallMakeOutputBlockList ==
    /\ call.fn = "makeOutputBlockList" /\ ret = <<>>
    /\ ret' = <<makeOutputBlockList(call.nrows, call.ncols, call.blocksize)>>
    /\ UNCHANGED restvars

\* findInputsPerBlock, then makeBlockReadingList on what it returns
CallMakeBlockReadingList ==
    /\ call.fn = "makeBlockReadingList" /\ ret = <<>>
    /\ LET blocks == makeOutputBlockList(OutNrows, OutNcols(call.tcols), BlockSize)
           ffb == findInputsPerBlock(blocks, filelist, call.covers)
       IN  ret' = <<[blockList |-> blocks, filesForBlock |-> ffb,
                     blockReadingList |-> makeBlockReadingList(blocks, ffb)]>>
    /\ UNCHANGED restvars

CallDivideBlocksByThread ==
    /\ call.fn = "divideBlocksByThread" /\ ret = <<>>
    /\ ret' = <<divideBlocksByThread(call.blockReadingList, call.numthreads)>>
    /\ UNCHANGED restvars

PlannerNext == CallMakeOutputBlockList \/ CallMakeBlockReadingList \/ CallDivideBlocksByThread

PlannerSpec == PlannerInit /\ [][PlannerNext]_vars

\* ------------------------------------------ readFunc's block, alone
\* The calls: a tile of the grid and the extents of the first two files of
\* the list, both accepted for the tile by findInputsPerBlock's test.
ReadInit ==
    /\ \E b \in SeqToSet(makeOutputBlockList(ReadRows, ReadCols, BlockSize)) :
           \E e1 \in Extents(ReadRows, ReadCols), e2 \in Extents(ReadRows, ReadCols) :
               /\ intersects(b, e1) /\ intersects(b, e2)
               /\ call = [fn |-> "readFunc", outblock |-> b, extents |-> <<e1, e2>>,
                          bandNum |-> 1]
    /\ ret = <<>>
    /\ driver = DFLT_DRIVER /\ creationoptions = "None"
    /\ imgInfoDict = {} /\ outfile = "absent"
    /\ blockList = <<>> /\ filesForBlock = <<>> /\ blocksPerThread = <<>>
    /\ mpc = "reading"
    /\ NotStarted

\* Each of the two files is read for the tile as readFunc does; the writer
\* caches what was enqueued and asks getInputsForBlock for the tile's inputs.
CallReadFunc ==
    /\ call.fn = "readFunc" /\ ret = <<>>
    /\ LET b == call.outblock
           outArrs == [n \in 1..2 |->
                          readBlock(filelist[n], call.bandNum,
                                    inblockOf(b, call.extents[n]), call.extents[n], NullVal)]
           enqueued == {n \in 1..2 : outArrs[n].result = "ok"}
           cache == [k \in {makeKey(filelist[n], b) : n \in enqueued} |->
                        outArrs[CHOOSE n \in enqueued : makeKey(filelist[n], b) = k].arr]
           ffb == [x \in {b} |-> <<filelist[1], filelist[2]>>]
       IN  ret' = <<[outArrs |-> outArrs,
                     allInputBlocks |-> getInputsForBlock(cache, b, ffb)]>>
    /\ UNCHANGED restvars

ReadSpec == ReadInit /\ [][CallReadFunc]_vars

\* ----------------------------------------------------------------- readers
PoolAlive == mpc \in {"writing", "joining", "unwinding"}
CurItem(k) == blocksPerThread[k][ridx[k]]
AnyReaderFailed == \E k \in Readers : rpc[k] = "failed"
AllReadersDone == \A k \in Readers : rpc[k] \in {"finished", "failed"}

\* gdalObjCache.openBand: a cached handle, or open on first use
openBand(hs, f) == hs \cup {f}
\* gdalObjCache.closeBand
closeBand(hs, f) == hs \ {f}

\* One pass of readFunc's loop body up to and including blockQ.put
ReadAndPut(k) ==
    /\ PoolAlive /\ rpc[k] = "read"
    /\ LET item == CurItem(k)
           f == item.filename
       IN  /\ handles' = [handles EXCEPT ![k] = openBand(@, f)]
           /\ opened' = [opened EXCEPT ![k][f] = IF f \in handles[k] THEN @ ELSE @ + 1]
           /\ blockQ' = Append(blockQ, [blockInfo |-> item,
                                        arr |-> PaddedRead(f, bandNum, item.outblock)])
    /\ rpc' = [rpc EXCEPT ![k] = "done"]
    /\ UNCHANGED <<cfgvars, bandNum, mpc, ridx, remaining, wvars, outDs, everFaulted,
                   postFaultWrites>>

\* openBand raises: the file cannot be opened
OpenFault(k) ==
    /\ PoolAlive /\ rpc[k] = "read"
    /\ CurItem(k).filename \notin handles[k]
    /\ rpc' = [rpc EXCEPT ![k] = "failed"]
    /\ everFaulted' = TRUE
    /\ UNCHANGED <<cfgvars, bandNum, mpc, blockQ, ridx, handles, opened, remaining,
                   wvars, outDs, postFaultWrites>>

\* band.ReadAsArray raises, with the handle open
ReadFault(k) ==
    /\ PoolAlive /\ rpc[k] = "read"
    /\ LET f == CurItem(k).filename
       IN  /\ handles' = [handles EXCEPT ![k] = openBand(@, f)]
           /\ opened' = [opened EXCEPT ![k][f] = IF f \in handles[k] THEN @ ELSE @ + 1]
    /\ rpc' = [rpc EXCEPT ![k] = "failed"]
    /\ everFaulted' = TRUE
    /\ UNCHANGED <<cfgvars, bandNum, mpc, blockQ, ridx, remaining, wvars, outDs,
                   postFaultWrites>>

\* After the put: blockDone, close the file when none of its blocks remain,
\* i += 1
NextRpc(k) == IF ridx[k] + 1 > Len(blocksPerThread[k]) THEN "finished" ELSE "read"

\* (variant: the file is closed after every block, not only its last)
BlockDoneCloseAlways(k) ==
    /\ PoolAlive /\ rpc[k] = "done"
    /\ LET f == CurItem(k).filename
       IN  /\ remaining' = [remaining EXCEPT ![k][f] = @ - 1]
           /\ handles' = [handles EXCEPT ![k] = closeBand(@, f)]
    /\ ridx' = [ridx EXCEPT ![k] = @ + 1]
    /\ rpc' = [rpc EXCEPT ![k] = NextRpc(k)]
    /\ UNCHANGED <<cfgvars, bandNum, mpc, blockQ, opened, wvars, outDs, everFaulted,
                   postFaultWrites>>

BlockDone(k) ==
    /\ PoolAlive /\ rpc[k] = "done"
    /\ LET f == CurItem(k).filename
       IN  /\ remaining' = [remaining EXCEPT ![k][f] = @ - 1]
           /\ handles' = [handles EXCEPT ![k] =
                             IF remaining[k][f] - 1 = 0 THEN closeBand(@, f) ELSE @]
    /\ ridx' = [ridx EXCEPT ![k] = @ + 1]
    /\ rpc' = [rpc EXCEPT ![k] = NextRpc(k)]
    /\ UNCHANGED <<cfgvars, bandNum, mpc, blockQ, opened, wvars, outDs, everFaulted,
                   postFaultWrites>>

\* closeBand raises after the last block of the file was enqueued
CloseFault(k) ==
    /\ PoolAlive /\ rpc[k] = "done"
    /\ LET f == CurItem(k).filename
       IN  /\ remaining[k][f] - 1 = 0
           /\ remaining' = [remaining EXCEPT ![k][f] = @ - 1]
    /\ rpc' = [rpc EXCEPT ![k] = "failed"]
    /\ everFaulted' = TRUE
    /\ UNCHANGED <<cfgvars, bandNum, mpc, blockQ, ridx, handles, opened, wvars, outDs,
                   postFaultWrites>>

\* ------------------------------------------------------------------ writer
Writing == mpc = "writing"

\* (variant: the tile of the item just drained is kept as the current tile)
outblockOfDrained == IF blockInfo # <<>> THEN blockInfo[1].outblock ELSE blockList[i + 1]

\* outblock = blockList[i]
outblock == blockList[i + 1]
PostFault(n) == IF AnyReaderFailed THEN n + 1 ELSE n

\* band.WriteArray(outArr, outblock.left, outblock.top)
WriteArray(ds, band, b, arr) ==
    [ds EXCEPT ![band] = Append(@, [outblock |-> b, arr |-> arr])]

\* (variant: a blocking get, the writer waits for an item)
PollBlocking ==
    /\ Writing /\ wpc = "poll"
    /\ blockQ # <<>>
    /\ blockQ' = Tail(blockQ)
    /\ blockInfo' = <<Head(blockQ).blockInfo>>
    /\ blockCache' = BlockCacheAdd(blockCache, Head(blockQ).blockInfo.filename,
                                   Head(blockQ).blockInfo.outblock, Head(blockQ).arr)
    /\ wpc' = "examine"
    /\ UNCHANGED <<cfgvars, bandNum, mpc, rvars, i, outDs, everFaulted, postFaultWrites>>

\* if not blockQ.empty(): get_nowait() and blockCache.add; else None
Poll ==
    /\ Writing /\ wpc = "poll"
    /\ IF blockQ # <<>>
       THEN /\ blockQ' = Tail(blockQ)
            /\ blockInfo' = <<Head(blockQ).blockInfo>>
            /\ blockCache' = BlockCacheAdd(blockCache, Head(blockQ).blockInfo.filename,
                                           Head(blockQ).blockInfo.outblock, Head(blockQ).arr)
       ELSE /\ blockInfo' = <<>>
            /\ UNCHANGED <<blockQ, blockCache>>
    /\ wpc' = "examine"
    /\ UNCHANGED <<cfgvars, bandNum, mpc, rvars, i, outDs, everFaulted, postFaultWrites>>

\* outblock not in filesForBlock: write nulls
WriteNulls ==
    /\ Writing /\ wpc = "examine"
    /\ outblock \notin DOMAIN filesForBlock
    /\ outDs' = WriteArray(outDs, bandNum, outblock, NullArray(outblock, NullVal))
    /\ i' = i + 1
    /\ postFaultWrites' = PostFault(postFaultWrites)
    /\ wpc' = "check"
    /\ UNCHANGED <<cfgvars, bandNum, mpc, blockQ, rvars, blockCache, blockInfo,
                   everFaulted>>

\* elif blockInfo is not None or len(blockCache) > 0: write the tile when
\* getInputsForBlock finds all of its inputs
MayBeReady ==
    /\ outblock \in DOMAIN filesForBlock
    /\ (blockInfo # <<>> \/ Cardinality(DOMAIN blockCache) > 0)

WriteMerged ==
    /\ Writing /\ wpc = "examine"
    /\ MayBeReady
    /\ LET allInputBlocks == getInputsForBlock(blockCache, outblock, filesForBlock)
       IN  /\ allInputBlocks.result # "None"
           /\ IF allInputBlocks.result = "ValueError"
              THEN /\ wpc' = "raised"
                   /\ mpc' = "unwinding"
                   /\ UNCHANGED <<outDs, blockCache, i, postFaultWrites>>
              ELSE /\ outDs' = WriteArray(outDs, bandNum, outblock,
                                          mergeInputs(allInputBlocks.arrays, NullVal))
                   /\ blockCache' = RemoveAll(blockCache, filesForBlock[outblock], outblock)
                   /\ i' = i + 1
                   /\ postFaultWrites' = PostFault(postFaultWrites)
                   /\ wpc' = "check"
                   /\ mpc' = mpc
    /\ UNCHANGED <<cfgvars, bandNum, blockQ, rvars, blockInfo, everFaulted>>

\* an input of the tile is still missing, or nothing is cached: no write
NotReady ==
    /\ Writing /\ wpc = "examine"
    /\ outblock \in DOMAIN filesForBlock
    /\ \/ ~MayBeReady
       \/ getInputsForBlock(blockCache, outblock, filesForBlock).result = "None"
    /\ wpc' = "check"
    /\ UNCHANGED <<cfgvars, bandNum, mpc, blockQ, rvars, i, blockCache, blockInfo,
                   outDs, everFaulted, postFaultWrites>>

\* (variant: a finished reader's exception is not raised)
CheckReadersNoRaise ==
    /\ Writing /\ wpc = "check"
    /\ IF i < numOutBlocks
       THEN /\ wpc' = "poll"
            /\ mpc' = mpc
       ELSE /\ wpc' = "returned"
            /\ mpc' = "joining"
    /\ UNCHANGED <<cfgvars, bandNum, blockQ, rvars, i, blockCache, blockInfo, outDs,
                   everFaulted, postFaultWrites>>

\* checkReaderExceptions(workerList), then the loop test i < numOutBlocks
CheckReaders ==
    /\ Writing /\ wpc = "check"
    /\ IF AnyReaderFailed
       THEN /\ wpc' = "raised"
            /\ mpc' = "unwinding"
       ELSE IF i < numOutBlocks
       THEN /\ wpc' = "poll"
            /\ mpc' = mpc
       ELSE /\ wpc' = "returned"
            /\ mpc' = "joining"
    /\ UNCHANGED <<cfgvars, bandNum, blockQ, rvars, i, blockCache, blockInfo, outDs,
                   everFaulted, postFaultWrites>>

\* ------------------------------------------------------------ orchestrator
\* (variant: the next band is started without waiting for the readers)
NextBandNoJoin ==
    /\ mpc = "joining"
    /\ bandNum < NumBands
    /\ bandNum' = bandNum + 1
    /\ mpc' = "writing"
    /\ rpc' = StartRpc(blocksPerThread)
    /\ ridx' = StartRidx(blocksPerThread)
    /\ handles' = StartHandles(blocksPerThread)
    /\ opened' = StartOpened(blocksPerThread)
    /\ remaining' = StartRemaining(blocksPerThread)
    /\ wpc' = "poll"
    /\ i' = 0
    /\ blockCache' = EmptyCache
    /\ blockInfo' = <<>>
    /\ postFaultWrites' = 0
    /\ UNCHANGED <<cfgvars, blockQ, outDs, everFaulted>>

\* The pool's exit joins the readers; the next band submits them again and
\* calls writeFunc with the same blockQ.
NextBand ==
    /\ mpc = "joining" /\ AllReadersDone
    /\ bandNum < NumBands
    /\ bandNum' = bandNum + 1
    /\ mpc' = "writing"
    /\ rpc' = StartRpc(blocksPerThread)
    /\ ridx' = StartRidx(blocksPerThread)
    /\ handles' = StartHandles(blocksPerThread)
    /\ opened' = StartOpened(blocksPerThread)
    /\ remaining' = StartRemaining(blocksPerThread)
    /\ wpc' = "poll"
    /\ i' = 0
    /\ blockCache' = EmptyCache
    /\ blockInfo' = <<>>
    /\ postFaultWrites' = 0
    /\ UNCHANGED <<cfgvars, blockQ, outDs, everFaulted>>

\* after the last band doMosaic returns normally
Return ==
    /\ mpc = "joining" /\ AllReadersDone
    /\ bandNum = NumBands
    /\ mpc' = "returned"
    /\ UNCHANGED <<cfgvars, bandNum, blockQ, rvars, wvars, outDs, everFaulted,
                   postFaultWrites>>

\* the writer's exception leaves the with-block once the readers are joined
Raise ==
    /\ mpc = "unwinding" /\ AllReadersDone
    /\ mpc' = "raised"
    /\ UNCHANGED <<cfgvars, bandNum, blockQ, rvars, wvars, outDs, everFaulted,
                   postFaultWrites>>

WriterStep == Poll \/ WriteNulls \/ WriteMerged \/ NotReady \/ CheckReaders

\* A run in which no reader raises
FaultFreeNext ==
    \/ \E k \in Readers : ReadAndPut(k)
    \/ \E k \in Readers : BlockDone(k)
    \/ WriterStep
    \/ NextBand
    \/ Return

Next ==
    \/ FaultFreeNext
    \/ \E k \in Readers : OpenFault(k)
    \/ \E k \in Readers : ReadFault(k)
    \/ \E k \in Readers : CloseFault(k)
    \/ Raise

Spec == Init /\ [][Next]_vars
SkewSpec == SkewInit /\ [][FaultFreeNext]_vars

\* The fairness the scheduling gives: the writer runs on the orchestrating
\* thread and every reader on a pool thread of its own, so each keeps taking
\* its steps; nothing forces a reader to raise.
Fairness ==
    /\ WF_vars(WriterStep)
    /\ WF_vars(NextBand \/ Return \/ Raise)
    /\ \A k \in 1..MaxThreads : WF_vars(k \in Readers /\ (ReadAndPut(k) \/ BlockDone(k)))

LiveSpec == Init /\ [][Next]_vars /\ Fairness

\* ------------------------------------------- the writer's poll, in two steps
\* (variant: get_nowait() is called without the test of blockQ.empty())
PollEmptyUnchecked ==
    /\ Writing /\ wpc = "poll"
    /\ wpc' = "get"
    /\ UNCHANGED <<cfgvars, bandNum, mpc, blockQ, rvars, i, blockCache, blockInfo, outDs,
                   everFaulted, postFaultWrites>>

\* if not blockQ.empty(): ... else: blockInfo = None. The test alone; the
\* readers run between it and the get_nowait() that follows.
PollEmpty ==
    /\ Writing /\ wpc = "poll"
    /\ IF blockQ # <<>>
       THEN /\ wpc' = "get"
            /\ blockInfo' = blockInfo
       ELSE /\ wpc' = "examine"
            /\ blockInfo' = <<>>
    /\ UNCHANGED <<cfgvars, bandNum, mpc, blockQ, rvars, i, blockCache, outDs,
                   everFaulted, postFaultWrites>>

\* (blockInfo, arr) = blockQ.get_nowait(); blockCache.add(...). get_nowait
\* raises queue.Empty on an empty queue, which ends writeFunc.
PollGet ==
    /\ Writing /\ wpc = "get"
    /\ IF blockQ # <<>>
       THEN /\ blockQ' = Tail(blockQ)
            /\ blockInfo' = <<Head(blockQ).blockInfo>>
            /\ blockCache' = BlockCacheAdd(blockCache, Head(blockQ).blockInfo.filename,
                                           Head(blockQ).blockInfo.outblock, Head(blockQ).arr)
            /\ wpc' = "examine"
            /\ mpc' = mpc
       ELSE /\ wpc' = "raised"
            /\ mpc' = "unwinding"
            /\ UNCHANGED <<blockQ, blockInfo, blockCache>>
    /\ UNCHANGED <<cfgvars, bandNum, rvars, i, outDs, everFaulted, postFaultWrites>>

PollWriterStep == PollEmpty \/ PollGet \/ WriteNulls \/ WriteMerged \/ NotReady \/ CheckReaders

PollNext ==
    \/ \E k \in Readers : ReadAndPut(k)
    \/ \E k \in Readers : BlockDone(k)
    \/ PollWriterStep
    \/ NextBand
    \/ Return
    \/ \E k \in Readers : OpenFault(k)
    \/ \E k \in Readers : ReadFault(k)
    \/ \E k \in Readers : CloseFault(k)
    \/ Raise

PollSpec == Init /\ [][PollNext]_vars

\* ------------------------------------- a file list that repeats a name
\* makeFilelist keeps every line of the list file: the lists drawn here name
\* a file more than once. A repeated name is one file, so its entries
\* intersect the same tiles.
DupFilelists == {<<1, 1>>, <<1, 2, 1>>}

DupPlanned(files, covers, n) ==
    LET blocks == makeOutputBlockList(OutNrows, OutNcols(NumTileCols), BlockSize)
        ffb == findInputsPerBlock(blocks, files, covers)
    IN  [blockList |-> blocks,
         filesForBlock |-> ffb,
         blocksPerThread |-> divideBlocksByThread(makeBlockReadingList(blocks, ffb), n)]

DupInit ==
    /\ PrologueDone
    /\ \E files \in DupFilelists, covers \in CoverChoices(NumTileCols), n \in 1..MaxThreads :
           LET p == DupPlanned(files, covers, n)
           IN  /\ blockList = p.blockList
               /\ filesForBlock = p.filesForBlock
               /\ blocksPerThread = p.blocksPerThread
    /\ FirstBand

\* the first position of fl whose name occurs earlier in fl (0 if none)
FirstRepeat(fl) ==
    LET rep == {n \in 1..Len(fl) : \E m \in 1..(n - 1) : fl[m] = fl[n]}
    IN  IF rep = {} THEN 0 ELSE CHOOSE n \in rep : \A m \in rep : n <= m

\* The tile is written, then blockCache.remove is called for a key the loop
\* has already removed. WriteMerged is the outcome in which that call does
\* nothing; this is the outcome in which it raises, which ends writeFunc
\* before i += 1.
RemoveFault ==
    /\ Writing /\ wpc = "examine"
    /\ MayBeReady
    /\ FirstRepeat(filesForBlock[outblock]) # 0
    /\ LET allInputBlocks == getInputsForBlock(blockCache, outblock, filesForBlock)
           fl == filesForBlock[outblock]
       IN  /\ allInputBlocks.result = "list"
           /\ outDs' = WriteArray(outDs, bandNum, outblock,
                                  mergeInputs(allInputBlocks.arrays, NullVal))
           /\ blockCache' = RemoveAll(blockCache, SubSeq(fl, 1, FirstRepeat(fl) - 1), outblock)
    /\ postFaultWrites' = PostFault(postFaultWrites)
    /\ wpc' = "raised"
    /\ mpc' = "unwinding"
    /\ UNCHANGED <<cfgvars, bandNum, blockQ, rvars, i, blockInfo, everFaulted>>

\* the run in which no reader raises, with both outcomes of the repeated remove
DupNext == FaultFreeNext \/ RemoveFault \/ Raise

DupSpec == DupInit /\ [][DupNext]_vars

\* ------------------------------------------------------------------ claims
Max(S) == CHOOSE x \in S : \A y \in S : y <= x
Bands == 1..NumBands
HasInputs(b) == b \in DOMAIN filesForBlock

\* the arrays the readers produce for tile b in band, in filesForBlock order
InputsOf(band, b) ==
    [n \in 1..Len(filesForBlock[b]) |-> PaddedRead(filesForBlock[b][n], band, b)]

\* the value at pixel p of the last input that is not null there
LastNonNull(inputs, p) ==
    LET nn == {n \in DOMAIN inputs : inputs[n].data[p] # NullVal}
    IN  IF nn = {} THEN NullVal ELSE inputs[Max(nn)].data[p]

\* C1 (merge precedence): every array written for a tile that has inputs
\* has the tile's shape and, at every pixel, the value of the last input in
\* filesForBlock order that is not null there, or null when all are null,
\* whatever the order in which the blocks reached the queue.
C1_MergePrecedence ==
    \A b \in Bands : \A n \in 1..Len(outDs[b]) :
        LET w == outDs[b][n]
        IN  HasInputs(w.outblock) =>
                /\ w.arr.shape = <<w.outblock.ysize, w.outblock.xsize>>
                /\ DOMAIN w.arr.data = 1..(w.outblock.xsize * w.outblock.ysize)
                /\ \A p \in DOMAIN w.arr.data :
                       w.arr.data[p] = LastNonNull(InputsOf(b, w.outblock), p)

\* a written pixel of a tile with two inputs where the last input is null
\* and the first is not, and a written pixel where both are not null
C1_Case(lastIsNull) ==
    \E b \in Bands : \E n \in 1..Len(outDs[b]) :
        LET w == outDs[b][n]
        IN  /\ HasInputs(w.outblock)
            /\ Len(filesForBlock[w.outblock]) >= 2
            /\ LET ins == InputsOf(b, w.outblock)
                   last == Len(ins)
               IN  \E p \in DOMAIN w.arr.data :
                       /\ (ins[last].data[p] = NullVal) = lastIsNull
                       /\ ins[1].data[p] # NullVal
                       /\ w.arr.data[p] = (IF lastIsNull THEN ins[1] ELSE ins[last]).data[p]

C1_Witness == C1_Case(TRUE) /\ C1_Case(FALSE)

\* C2 (strict write order): in every band the writes are, in order, the
\* tiles blockList[1], blockList[2], ... , each once; the band being written
\* holds exactly the first i of them, the bands before it all of them and
\* the bands after it none.
C2_StrictWriteOrder ==
    \A b \in Bands :
        /\ Len(outDs[b]) <= numOutBlocks
        /\ \A n \in 1..Len(outDs[b]) : outDs[b][n].outblock = blockList[n]
        /\ b < bandNum => Len(outDs[b]) = numOutBlocks
        /\ b = bandNum => Len(outDs[b]) = i
        /\ b > bandNum => Len(outDs[b]) = 0

\* the writer has written a tile and holds, in the cache, a block of a tile
\* that is not the next one to write: a later tile's block arrived early
C2_Witness ==
    /\ Writing /\ i >= 1 /\ i < numOutBlocks
    /\ \E key \in DOMAIN blockCache :
           \E n \in (i + 2)..numOutBlocks : key[2] = blockList[n]
    /\ \E f \in Files : makeKey(f, blockList[i + 1]) \notin DOMAIN blockCache
                            /\ HasInputs(blockList[i + 1])

\* what a run writes for band b, from the inputs alone: the thread count
\* and the schedule do not occur in it
Reference(b) ==
    [n \in 1..numOutBlocks |->
        [outblock |-> blockList[n],
         arr |-> IF HasInputs(blockList[n])
                 THEN mergeInputs(InputsOf(b, blockList[n]), NullVal)
                 ELSE NullArray(blockList[n], NullVal)]]

\* C3 (thread-count independence): at every moment the writes of a band are
\* a prefix of Reference, a sequence fixed by the input list, the tiling and
\* the null value; a fault-free run that returns has written all of it, for
\* every thread count and every schedule.
C3_ThreadCountIndependence ==
    /\ \A b \in Bands :
           /\ Len(outDs[b]) <= numOutBlocks
           /\ outDs[b] = SubSeq(Reference(b), 1, Len(outDs[b]))
    /\ (mpc = "returned" /\ ~everFaulted) => \A b \in Bands : outDs[b] = Reference(b)

\* a fault-free run with several readers has returned, having merged a tile
\* of two inputs
C3_Witness ==
    /\ mpc = "returned" /\ ~everFaulted
    /\ numthreads = MaxThreads /\ MaxThreads > 1
    /\ \E n \in 1..numOutBlocks :
           HasInputs(blockList[n]) /\ Len(filesForBlock[blockList[n]]) >= 2

\* C4 (fail-fast), as claimed: once a reader of the band has terminated with
\* a fault the writer writes no further tile.
C4_NoWriteAfterFault == postFaultWrites = 0

\* C4 (fail-fast), amended: after a reader of the band has terminated with a
\* fault, the writeFunc call of that band writes at most one further tile
\* (the write precedes the fault check in an iteration), and a writer whose
\* fault check raised writes nothing more.
C4_AtMostOneWriteAfterFault ==
    /\ postFaultWrites <= 1
    /\ (wpc = "check" /\ postFaultWrites = 1) => AnyReaderFailed
    /\ mpc \in {"unwinding", "raised"} => wpc = "raised"

\* the one tile has been written after the fault, and the writer has raised
C4_Witness == postFaultWrites = 1 /\ wpc = "raised" /\ AnyReaderFailed

\* C5 (every reader fault is surfaced): doMosaic does not return normally
\* when a reader of any band has terminated with a fault.
C5_FaultSurfaced == mpc = "returned" => ~everFaulted

\* C6 (backpressure): the queue never holds more than 2 * numthreads items.
C6_QueueBounded == Len(blockQ) <= 2 * numthreads

\* the largest number of inputs of one tile
MaxInputsPerTile ==
    IF DOMAIN filesForBlock = {} THEN 0
    ELSE Max({Len(filesForBlock[b]) : b \in DOMAIN filesForBlock})

\* C7 (bounded block cache): at the end of every writer iteration, where the
\* cache-size gauge is read, the cache holds no more than
\* numthreads * maxInputsPerTile entries, however many tiles there are.
C7_CacheBounded ==
    wpc = "check" => Cardinality(DOMAIN blockCache) <= numthreads * MaxInputsPerTile

\* the number of blocks of file f in reader k's list
BlocksOf(k, f) ==
    Cardinality({n \in 1..Len(blocksPerThread[k]) : blocksPerThread[k][n].filename = f})

\* C8 (handle discipline): within a band a reader opens each file at most
\* once; between two blocks it holds no handle of a file with no block left
\* (the handle is closed right after the file's last block); a reader that
\* has completed its list without fault holds no handle.
C8_HandleDiscipline ==
    \A k \in Readers :
        /\ \A f \in Files : opened[k][f] <= 1
        /\ rpc[k] \in {"read", "finished"} => \A f \in handles[k] : remaining[k][f] > 0
        /\ rpc[k] = "finished" => handles[k] = {}

\* a reader has completed a list holding several blocks of one file and a
\* block of another, each file opened once
C8_Witness ==
    \E k \in Readers :
        /\ rpc[k] = "finished" /\ handles[k] = {}
        /\ \E f \in Files : BlocksOf(k, f) >= 2 /\ opened[k][f] = 1
        /\ \A f \in Files : BlocksOf(k, f) >= 1 /\ opened[k][f] = 1

\* every band has all of its tiles written
AllWritten == \A b \in Bands : Len(outDs[b]) = numOutBlocks

\* C9 (liveness): under fair scheduling of the readers and the writer, a
\* run in which no reader faults eventually has every tile of every band
\* written and doMosaic returned.
C9_Liveness == <>(everFaulted \/ (mpc = "returned" /\ AllWritten))

\* the writer is about to poll an empty queue that will stay empty (every
\* reader has finished) with tiles still to write
C9_Witness ==
    /\ ~everFaulted /\ Writing /\ wpc = "poll"
    /\ blockQ = <<>> /\ AllReadersDone
    /\ i < numOutBlocks
    /\ Cardinality(DOMAIN blockCache) > 0

\* C10 (non-intersecting tiles): a tile absent from filesForBlock is written
\* at its turn, once, as an array of shape (ysize, xsize) filled with the
\* null value; and the writer, examining such a tile, writes it in that
\* very step whatever the queue and the cache hold.
C10_NullTile(b, n) ==
    ~HasInputs(blockList[n]) =>
        outDs[b][n] = [outblock |-> blockList[n],
                       arr |-> [shape |-> <<blockList[n].ysize, blockList[n].xsize>>,
                                data |-> [p \in 1..(blockList[n].xsize * blockList[n].ysize)
                                             |-> NullVal]]]

C10_NonIntersectingTiles ==
    /\ [](\A b \in Bands : \A n \in 1..Len(outDs[b]) : C10_NullTile(b, n))
    /\ [][(Writing /\ wpc = "examine" /\ ~HasInputs(outblock) /\ wpc' # wpc)
              => (i' = i + 1 /\ Len(outDs'[bandNum]) = Len(outDs[bandNum]) + 1)]_vars

\* the first tile has no inputs and has been written in the first iteration,
\* with nothing drained and nothing cached
C10_Witness ==
    /\ bandNum = 1 /\ wpc = "check" /\ i = 1
    /\ ~HasInputs(blockList[1])
    /\ Len(outDs[1]) = 1 /\ outDs[1][1].outblock = blockList[1]
    /\ blockInfo = <<>> /\ DOMAIN blockCache = {}

\* C11 (configuration faults precede I/O): in a call of doMosaic whose driver
\* is unknown to GDAL no input file is ever opened and the output file is
\* never deleted or created.
C11_ConfigFaultBeforeIO ==
    driver \notin GdalDrivers => (imgInfoDict = {} /\ outfile # "created")

\* a planner function called alone has returned
Returned(fn) == call.fn = fn /\ ret # <<>>

\* pixel (r, c) of the grid lies in tile b
InTile(b, r, c) == b.top <= r /\ r < b.top + b.ysize /\ b.left <= c /\ c < b.left + b.xsize

\* C12 (tile list): for every grid nrows x ncols and block size B >= 1 the
\* tiles of makeOutputBlockList are in row-major order, start on multiples of
\* B, are B x B except that the right-most column and the bottom row are
\* clipped to the remainder, lie inside the grid, and every pixel of the grid
\* lies in exactly one of them.
C12_TileList ==
    Returned("makeOutputBlockList") =>
        LET bl == ret[1]
            B == call.blocksize
        IN  /\ \A n \in 1..Len(bl) :
                   /\ bl[n].top % B = 0 /\ bl[n].left % B = 0
                   /\ bl[n].xsize >= 1 /\ bl[n].ysize >= 1
                   /\ bl[n].xsize = (IF bl[n].left + B <= call.ncols THEN B
                                     ELSE call.ncols - bl[n].left)
                   /\ bl[n].ysize = (IF bl[n].top + B <= call.nrows THEN B
                                     ELSE call.nrows - bl[n].top)
            /\ \A m \in 1..Len(bl) : \A n \in (m + 1)..Len(bl) :
                   \/ bl[m].top < bl[n].top
                   \/ bl[m].top = bl[n].top /\ bl[m].left < bl[n].left
            /\ \A r \in 0..(call.nrows - 1) : \A c \in 0..(call.ncols - 1) :
                   Cardinality({n \in 1..Len(bl) : InTile(bl[n], r, c)}) = 1

\* a grid larger than one block in both directions, a multiple of the block
\* size in neither, has been cut into its four tiles, three of them clipped
C12_Witness ==
    /\ Returned("makeOutputBlockList")
    /\ call.blocksize < call.nrows /\ call.nrows < 2 * call.blocksize
    /\ call.blocksize < call.ncols /\ call.ncols < 2 * call.blocksize
    /\ Len(ret[1]) = 4
    /\ ret[1][4].xsize = call.ncols - call.blocksize
    /\ ret[1][4].ysize = call.nrows - call.blocksize

\* the cache holds an entry (filename, b) for every filename of filesForBlock[b]
Complete(b) ==
    \A n \in 1..Len(filesForBlock[b]) : makeKey(filesForBlock[b][n], b) \in DOMAIN blockCache

\* C13 (write only when complete): a step taken while the writer examines a
\* tile that has inputs changes i or the output only if the cache holds every
\* input of the tile; with an input missing, the iteration ends with i and
\* the output as they were.
C13_WriteOnlyWhenComplete ==
    [][(Writing /\ wpc = "examine" /\ HasInputs(outblock) /\ ~Complete(outblock))
           => (i' = i /\ outDs' = outDs /\ wpc' \in {"examine", "check"})]_vars

\* the first iteration has ended without a write: the block drained is one
\* input of the first tile, whose other input has not arrived
C13_Witness ==
    /\ bandNum = 1 /\ wpc = "check" /\ i = 0 /\ outDs[1] = <<>>
    /\ blockInfo # <<>>
    /\ HasInputs(blockList[1]) /\ ~Complete(blockList[1])
    /\ \E f \in Files : makeKey(f, blockList[1]) \in DOMAIN blockCache

\* the tiles known to have been written since a reader terminated with a
\* fault: those counted in the band of the fault or, when the fault is of an
\* earlier band (no reader of this band has failed), all those of this band
WritesAfterFault ==
    IF AnyReaderFailed THEN postFaultWrites
    ELSE IF everFaulted /\ bandNum >= 1 THEN Len(outDs[bandNum])
    ELSE 0

\* C14 (bounded damage after a fault): after a reader has terminated with a
\* fault the writer writes at most one tile, the one of the iteration in
\* progress, before the fault is re-raised.
C14_BoundedDamage == WritesAfterFault <= 1

\* C15 (fault propagation stops the other readers): once the writer has
\* observed a reader fault (its check has raised), no reader enqueues
\* another block.
C15_FaultStopsReaders ==
    [][(wpc = "raised" /\ AnyReaderFailed) => blockQ' = blockQ]_vars

\* C16 (stride partition): for every reading list and every thread count
\* N >= 1, divideBlocksByThread returns N lists; the j-th item of reader k
\* (counted from 1) is the item at position k + (j - 1) * N of the reading
\* list, so each reader's items keep their relative order; every position of
\* the reading list is in exactly one reader's list, and a reader beyond the
\* length of the list gets the empty list.
C16_StridePartition ==
    Returned("divideBlocksByThread") =>
        LET brl == call.blockReadingList
            N == call.numthreads
            parts == ret[1]
        IN  /\ DOMAIN parts = 1..N
            /\ \A k \in 1..N :
                   /\ Len(parts[k]) = Cardinality({p \in 1..Len(brl) : (p - k) % N = 0})
                   /\ \A j \in 1..Len(parts[k]) :
                          /\ k + (j - 1) * N <= Len(brl)
                          /\ parts[k][j] = brl[k + (j - 1) * N]
                   /\ k > Len(brl) => parts[k] = <<>>
            /\ \A p \in 1..Len(brl) :
                   Cardinality({kj \in (1..N) \X (1..Len(brl)) :
                                   /\ kj[2] <= Len(parts[kj[1]])
                                   /\ parts[kj[1]][kj[2]] = brl[p]}) = 1

\* several readers, a list more than twice as long as there are readers and
\* not a multiple of their number: the first reader got one item more than
\* the last, and its second item is the one N positions after its first
C16_Witness ==
    /\ Returned("divideBlocksByThread")
    /\ call.numthreads >= 2
    /\ Len(call.blockReadingList) > 2 * call.numthreads
    /\ Len(ret[1][1]) = Len(ret[1][call.numthreads]) + 1
    /\ ret[1][1][2] = call.blockReadingList[1 + call.numthreads]

\* the position of item x in a sequence of distinct items
PosIn(seq, x) == CHOOSE p \in 1..Len(seq) : seq[p] = x

\* C17 (plan consistency): a tile is a key of filesForBlock iff some file
\* intersects it; filesForBlock[tile] holds exactly the files that intersect
\* the tile, each once, in the order of the input list; the reading list
\* holds exactly one item per (tile, filename) of filesForBlock and nothing
\* else, ordered by tile (in blockList order) and, within a tile, by file.
C17_PlanConsistency ==
    Returned("makeBlockReadingList") =>
        LET blocks == ret[1].blockList
            ffb == ret[1].filesForBlock
            brl == ret[1].blockReadingList
            Intersecting(k) == {f \in Files : k \in call.covers[f]}
            Before(x, y) ==
                \/ PosIn(blocks, x.outblock) < PosIn(blocks, y.outblock)
                \/ /\ x.outblock = y.outblock
                   /\ PosIn(filelist, x.filename) < PosIn(filelist, y.filename)
        IN  /\ DOMAIN ffb \subseteq SeqToSet(blocks)
            /\ \A k \in 1..Len(blocks) :
                   /\ (blocks[k] \in DOMAIN ffb) <=> (Intersecting(k) # {})
                   /\ blocks[k] \in DOMAIN ffb =>
                          LET fl == ffb[blocks[k]]
                          IN  /\ SeqToSet(fl) = Intersecting(k)
                              /\ \A m \in 1..Len(fl) : \A n \in (m + 1)..Len(fl) :
                                     PosIn(filelist, fl[m]) < PosIn(filelist, fl[n])
            /\ \A p \in 1..Len(brl) :
                   /\ brl[p].outblock \in DOMAIN ffb
                   /\ brl[p].filename \in SeqToSet(ffb[brl[p].outblock])
                   /\ \A q \in (p + 1)..Len(brl) : Before(brl[p], brl[q])
            /\ \A b \in DOMAIN ffb : \A n \in 1..Len(ffb[b]) :
                   Cardinality({p \in 1..Len(brl) :
                                   brl[p] = [outblock |-> b, filename |-> ffb[b][n]]}) = 1

\* a tiling with a tile that no file intersects, a tile that only the second
\* file intersects and a tile that both intersect, read first file first
C17_Witness ==
    /\ Returned("makeBlockReadingList")
    /\ \E a, b, c \in SeqToSet(ret[1].blockList) :
           /\ a \notin DOMAIN ret[1].filesForBlock
           /\ b \in DOMAIN ret[1].filesForBlock /\ ret[1].filesForBlock[b] = <<filelist[2]>>
           /\ c \in DOMAIN ret[1].filesForBlock /\ ret[1].filesForBlock[c] = filelist
    /\ Len(ret[1].blockReadingList) = 3

\* the array a reader of the band being processed produces for a reading spec
OfThisBand(filename, b, arr) == arr = PaddedRead(filename, bandNum, b)

\* C18 (bands sequential and isolated): the bands before the current one
\* are completely written; every item in the queue and every array in the
\* cache is the one a reader of the current band produced; the queue is
\* empty once the writer of a band has returned; and the readers of the
\* next band are started only when the writer has returned with every tile
\* written, every reader of the band has finished, and the queue is empty.
C18_BandsSequential ==
    /\ [](/\ \A b \in Bands : b < bandNum => Len(outDs[b]) = numOutBlocks
          /\ \A n \in 1..Len(blockQ) :
                 OfThisBand(blockQ[n].blockInfo.filename, blockQ[n].blockInfo.outblock,
                            blockQ[n].arr)
          /\ \A key \in DOMAIN blockCache : OfThisBand(key[1], key[2], blockCache[key])
          /\ wpc = "returned" => blockQ = <<>>)
    /\ [][bandNum' # bandNum =>
              /\ wpc = "returned" /\ i = numOutBlocks
              /\ Len(outDs[bandNum]) = numOutBlocks
              /\ AllReadersDone
              /\ blockQ = <<>>]_vars

\* the second band is under way: the writer has cached a block that differs
\* from the block of the same file and tile in the first band, and another
\* block of the second band waits in the queue
C18_Witness ==
    /\ bandNum = 2 /\ Writing
    /\ blockQ # <<>>
    /\ \E key \in DOMAIN blockCache : blockCache[key] # PaddedRead(key[1], 1, key[2])

\* the cache keys of the inputs of tile b
KeysOf(b) == {makeKey(filesForBlock[b][n], b) : n \in 1..Len(filesForBlock[b])}

\* C19 (block-cache lifecycle): every cache entry (filename, tile) is an
\* input of a tile not yet written (index >= i); the cache is empty when
\* writeFunc has returned; an entry appears only in the writer's poll, for
\* the item it dequeues, and entries disappear only in the writer's step
\* that writes a tile, which removes exactly that tile's inputs.
C19_CacheLifecycle ==
    /\ [](/\ \A key \in DOMAIN blockCache :
                 \E n \in (i + 1)..numOutBlocks :
                     /\ key[2] = blockList[n]
                     /\ HasInputs(key[2]) /\ key \in KeysOf(key[2])
          /\ wpc = "returned" => DOMAIN blockCache = {})
    /\ [][DOMAIN blockCache' # DOMAIN blockCache =>
              \/ /\ wpc = "poll" /\ blockQ # <<>> /\ blockQ' = Tail(blockQ)
                 /\ DOMAIN blockCache' = DOMAIN blockCache
                        \cup {makeKey(Head(blockQ).blockInfo.filename,
                                      Head(blockQ).blockInfo.outblock)}
              \/ /\ wpc = "examine" /\ i' = i + 1
                 /\ outDs'[bandNum] = Append(outDs[bandNum], outDs'[bandNum][i + 1])
                 /\ outDs'[bandNum][i + 1].outblock = blockList[i + 1]
                 /\ DOMAIN blockCache' = DOMAIN blockCache \ KeysOf(blockList[i + 1])]_vars

\* a tile of two inputs has just been written and its entries removed, while
\* blocks of later tiles, arrived early, stay in the cache
C19_Witness ==
    /\ Writing /\ wpc = "check" /\ i >= 1
    /\ HasInputs(blockList[i]) /\ Len(filesForBlock[blockList[i]]) >= 2
    /\ DOMAIN blockCache # {}
    /\ KeysOf(blockList[i]) \cap DOMAIN blockCache = {}

\* C20 (uniform block shape): every array readFunc enqueues for a tile has
\* the shape (outblock.ysize, outblock.xsize) and as many pixels, wherever
\* the file lies and however the window was clipped; the arrays of two files
\* cached under one tile have the same shape, and getInputsForBlock does
\* not raise its shape-mismatch error.
C20_UniformBlockShape ==
    Returned("readFunc") =>
        LET b == call.outblock
            outArrs == ret[1].outArrs
            ok == {n \in DOMAIN outArrs : outArrs[n].result = "ok"}
        IN  /\ \A n \in ok :
                   /\ outArrs[n].arr.shape = <<b.ysize, b.xsize>>
                   /\ DOMAIN outArrs[n].arr.data = 1..(b.xsize * b.ysize)
            /\ \A m \in ok : \A n \in ok : outArrs[m].arr.shape = outArrs[n].arr.shape
            /\ ret[1].allInputBlocks.result # "ValueError"
            /\ ok = DOMAIN outArrs => ret[1].allInputBlocks.result = "list"

\* a tile read from two files, one clipped at the file's left and top edge
\* (a negative inblock origin), the other at its right or bottom edge: both
\* arrays were enqueued with the tile's shape and padded with nulls
C20_Witness ==
    /\ Returned("readFunc")
    /\ ret[1].allInputBlocks.result = "list"
    /\ LET b == call.outblock
           in1 == inblockOf(b, call.extents[1])
           w2 == ClippedWindow(inblockOf(b, call.extents[2]), call.extents[2])
       IN  /\ in1.left < 0 /\ in1.top < 0
           /\ w2.coloffset = 0 /\ w2.rowoffset = 0
           /\ w2.xsize1 < b.xsize \/ w2.ysize1 < b.ysize
           /\ b.xsize > 1 /\ b.ysize > 1

\* the window readFunc computes for file n of a readFunc call
WindowOf(n) == ClippedWindow(inblockOf(call.outblock, call.extents[n]), call.extents[n])

\* C21 (non-empty clipped read): for every (tile, file) pair accepted by
\* findInputsPerBlock's intersection test, the window readFunc computes
\* after clipping has xsize1 > 0 and ysize1 > 0 and fits inside the padded
\* array at (rowoffset, coloffset); no read of an empty or negative-size
\* window is requested.
C21_NonEmptyClippedRead ==
    Returned("readFunc") =>
        \A n \in DOMAIN call.extents :
            LET w == WindowOf(n)
                b == call.outblock
            IN  /\ w.xsize1 > 0 /\ w.ysize1 > 0
                /\ w.rowoffset + w.ysize1 <= b.ysize
                /\ w.coloffset + w.xsize1 <= b.xsize

\* the part of C21 that does not depend on the window being non-empty: the
\* slot never exceeds the padded array
C21_SlotFits ==
    Returned("readFunc") =>
        \A n \in DOMAIN call.extents :
            LET w == WindowOf(n)
                b == call.outblock
            IN  /\ w.rowoffset + w.ysize1 <= b.ysize
                /\ w.coloffset + w.xsize1 <= b.xsize

\* the accepted pairs whose window is empty (the file begins where the tile
\* ends) and negative (the file begins one pixel after the tile's end)
C21_EmptyWindowReached ==
    Returned("readFunc") /\ WindowOf(1).xsize1 = 0 /\ WindowOf(1).ysize1 > 0

C21_NegativeWindowReached ==
    Returned("readFunc") /\ WindowOf(1).xsize1 < 0

\* C22 (the poll never blocks and never fails): whenever the writer has seen
\* blockQ.empty() false and is about to call get_nowait(), the queue still
\* holds an item, whatever the readers did in between, so queue.Empty is
\* never raised; and the test itself can always be taken, on an empty queue
\* too, after which the writer goes on to examine the tile with no item.
C22_PollNeverFails ==
    /\ (Writing /\ wpc = "get") => blockQ # <<>>
    /\ (Writing /\ wpc = "poll") => ENABLED PollEmpty
    /\ (Writing /\ wpc = "get") => ENABLED PollGet

\* the writer is between the test and get_nowait() while a reader that has
\* put an item is still in its loop and another item has been put behind
\* the one the writer saw
C22_Witness ==
    /\ Writing /\ wpc = "get"
    /\ Len(blockQ) >= 2
    /\ \E k \in Readers : rpc[k] \in {"read", "done"}
    /\ bandNum = 2

\* the blocks reader k has put into the queue in this band
PutBy(k) == (ridx[k] - 1) + (IF rpc[k] = "done" THEN 1 ELSE 0)
\* the blocks the tiles written so far in this band have consumed
RECURSIVE ConsumedUpTo(_)
ConsumedUpTo(n) ==
    IF n = 0 THEN 0
    ELSE ConsumedUpTo(n - 1)
             + (IF HasInputs(blockList[n]) THEN Len(filesForBlock[blockList[n]]) ELSE 0)
RECURSIVE SumPut(_)
SumPut(n) == IF n = 0 THEN 0 ELSE SumPut(n - 1) + PutBy(n)

\* C23 (no cache entry overwritten or lost): the item the writer is about to
\* dequeue never has a (filename, tile) key that is already in the cache;
\* every cache entry belongs to a tile not yet written, so it will be
\* consumed; while no reader has failed, every block put by a reader is in
\* exactly one place: in the queue, in the cache, or among the inputs of a
\* written tile, each written tile having consumed one block per input; and
\* when writeFunc returns the queue and the cache are empty.
C23_NoOverwriteNoLoss ==
    /\ (Writing /\ wpc = "poll" /\ blockQ # <<>>) =>
           makeKey(Head(blockQ).blockInfo.filename, Head(blockQ).blockInfo.outblock)
               \notin DOMAIN blockCache
    /\ \A key \in DOMAIN blockCache : \E n \in (i + 1)..numOutBlocks : key[2] = blockList[n]
    /\ (PoolAlive /\ ~everFaulted /\ wpc # "raised") =>
           SumPut(numthreads) = Len(blockQ) + Cardinality(DOMAIN blockCache) + ConsumedUpTo(i)
    /\ wpc = "returned" => (blockQ = <<>> /\ DOMAIN blockCache = {})

\* with a repeated name: the writer is about to insert a key that is in the
\* cache (the entry is overwritten), ...
C23_OverwriteReached ==
    /\ Writing /\ wpc = "poll" /\ blockQ # <<>>
    /\ makeKey(Head(blockQ).blockInfo.filename, Head(blockQ).blockInfo.outblock)
           \in DOMAIN blockCache

\* ... the cache holds a block of a tile that is already written (it is never
\* consumed nor removed), ...
C23_StaleEntryReached ==
    /\ Writing
    /\ \E key \in DOMAIN blockCache : \E n \in 1..i : key[2] = blockList[n]

\* ... and a block of the first band, left in the queue, has been written
\* into the second band
C23_BandLeakReached ==
    /\ bandNum = 2
    /\ \E n \in 1..Len(outDs[2]) :
           LET w == outDs[2][n]
           IN  /\ HasInputs(w.outblock)
               /\ w.arr = PaddedRead(filesForBlock[w.outblock][1], 1, w.outblock)
               /\ w.arr # PaddedRead(filesForBlock[w.outblock][1], 2, w.outblock)
               /\ \A m \in 1..Len(filesForBlock[w.outblock]) :
                      filesForBlock[w.outblock][m] = filesForBlock[w.outblock][1]

=============================================================================
